---- MODULE Spec2Model ----
(***************************************************************************)
(* The TCP-ping data-collection worker of stabping (src/src/tcpping.rs).   *)
(*                                                                         *)
(* One control thread (run_tcpping_worker) loops forever over rounds.  In  *)
(* a round it copies interval, avg_across, pause and the number of         *)
(* addresses out of the shared options under a first read guard, takes a   *)
(* timestamp, and under a second read guard spawns one prober thread per   *)
(* address, each with a channel of its own, and reads the nonce.  It then  *)
(* receives from the channels in the order they were pushed, pushes the    *)
(* row on results_out and sleeps for the rest of the interval.             *)
(*                                                                         *)
(* The options are written by code outside the worker (Writer), and the    *)
(* receiving end of results_out is owned by code outside the worker        *)
(* (DropReceiver).                                                         *)
(*                                                                         *)
(* Times measured with precise_time_ns are u64 nanoseconds.  They are kept *)
(* as [ms, ns] with value ms * 10^6 + ns and 0 <= ns < 10^6, so that the   *)
(* microsecond values around 2^31 and 2^32, where the cast to i32 wraps,   *)
(* can be computed.  The sums of a round stay far below 2^64.              *)
(***************************************************************************)
EXTENDS Integers, Sequences, FiniteSets, TLC

VARIABLES
    options,        \* the shared TargetOptions: interval, avg_across, pause, addrs, nonce
    guard,          \* the read guard the worker holds: "none", "opt" or "t_opt"
    receiver_alive, \* whether the receiving end of results_out still exists
    pc,             \* the worker's position in the loop body
    dur_interval,   \* worker local (line 40), milliseconds
    avg_across,     \* worker local (line 41)
    dur_pause,      \* worker local (line 42), milliseconds
    num_addrs,      \* worker local (line 43)
    timestamp,      \* worker local (line 48)
    nonce,          \* worker local (line 50)
    idx,            \* position of `for addr in t_opt.addrs.iter()` (line 52)
    handles,        \* the Vec of receivers (line 30), each with its channel's state
    cur,            \* position of `for h in handles.drain(..)` (line 113)
    data,           \* the row being assembled (line 104)
    send_ok,        \* history: whether the last results_out.send succeeded (line 123)
    elapsed,        \* loop_start.elapsed() as read at line 128, milliseconds
    slept,          \* the duration slept at line 130, milliseconds
    threads,        \* the prober threads of the round, by the index of their channel
    probed,         \* history: per prober spawned this round, its address and the
                    \* nonce of the options it was taken from
    pushed,         \* history: the row this round handed to results_out.send
    finished,       \* history: the threads of this round in the order their closures
                    \* returned
    last_nonce      \* history: the nonce of the last row handed to results_out.send,
                    \* 0 before the first

vars == << options, guard, receiver_alive, pc, dur_interval, avg_across, dur_pause,
           num_addrs, timestamp, nonce, idx, handles, cur, data, send_ok, elapsed,
           slept, threads, probed, pushed, finished, last_nonce >>

(***************************************************************************)
(* Bounds of the model.                                                    *)
(***************************************************************************)
MaxWrites == 2
MaxReps == 2
MaxElapsed == 3

(***************************************************************************)
(* Constants of the program.                                               *)
(***************************************************************************)
SENTINEL_ERROR == -2100000000
KindId == 5
ConnectTimeoutMs == 30000

(***************************************************************************)
(* u64 nanoseconds as [ms, ns], and the conversion of line 97.             *)
(***************************************************************************)
NsPerMs == 1000000

Ns(m, n) == [ms |-> m, ns |-> n]

NsZero == Ns(0, 0)

\* sum += x
NsAdd(x, y) ==
    LET n == x.ns + y.ns
    IN  [ms |-> x.ms + y.ms + (n \div NsPerMs), ns |-> n % NsPerMs]

\* sum / denom, the truncating u64 division
NsDiv(x, k) ==
    LET r == x.ms % k
    IN  [ms |-> x.ms \div k, ns |-> (r * NsPerMs + x.ns) \div k]

\* x / 1000: nanoseconds to whole microseconds, as [ms, us] with value ms * 1000 + us
NsToUs(x) == [ms |-> x.ms, us |-> x.ns \div 1000]

\* 2^31 = 2147483 * 1000 + 648 and 2^32 = 4294967 * 1000 + 296 microseconds
UsAtLeast(u, m, s) == u.ms > m \/ (u.ms = m /\ u.us >= s)

RECURSIVE UsLow32(_)
\* the low 32 bits of a u64
UsLow32(u) ==
    IF UsAtLeast(u, 4294967, 296)
    THEN UsLow32(IF u.us >= 296
                 THEN [ms |-> u.ms - 4294967, us |-> u.us - 296]
                 ELSE [ms |-> u.ms - 4294968, us |-> u.us + 704])
    ELSE u

\* `as i32` of a u64: the low 32 bits read as two's complement
AsI32(u) ==
    LET w == UsLow32(u)
    IN  IF UsAtLeast(w, 2147483, 648)
        THEN (w.ms - 4294966) * 1000 + (w.us - 1296)
        ELSE w.ms * 1000 + w.us

\* (sum / denom / 1000) as i32
Average(sum, denom) == AsI32(NsToUs(NsDiv(sum, denom)))

(***************************************************************************)
(* The environment: the addresses, what resolving and connecting to them   *)
(* can return, and how long that takes.                                    *)
(***************************************************************************)
Up == "127.0.0.1:7"
Invalid == "nonexistent.invalid:9999"
Slow == "slow.example:80"

\* what to_socket_addrs can return for an address (line 78) and the time it takes:
\* "err" is Err, "empty" is Ok of an iterator with no address, "addr" is Ok of one
ResolveOutcomes(a) ==
    CASE a = Up      -> { [res |-> "addr", time |-> NsZero] }
      [] a = Invalid -> { [res |-> "err", time |-> NsZero] }
      [] OTHER       -> { [res |-> "addr", time |-> Ns(2194967, 294001)],
                          [res |-> "empty", time |-> Ns(5000, 0)] }

\* how long a successful connect_timeout can take (line 80): below the timeout
ConnectTimes == { t \in { Ns(0, 1999), Ns(10, 0) } : t.ms < ConnectTimeoutMs }

\* the configurations the options can be set to (all fields but the nonce)
Configs ==
    { [interval |-> 2, avg_across |-> MaxReps, pause |-> 1, addrs |-> <<Up, Invalid>>],
      [interval |-> 1, avg_across |-> 1, pause |-> 0, addrs |-> <<Slow, Up>>],
      [interval |-> 0, avg_across |-> 0, pause |-> 0, addrs |-> <<Up>>],
      [interval |-> 1, avg_across |-> 1, pause |-> 1, addrs |-> <<>>] }

WithNonce(c, n) ==
    [interval |-> c.interval, avg_across |-> c.avg_across, pause |-> c.pause,
     addrs |-> c.addrs, nonce |-> n]

Timestamps == { 1478390400 }

\* no prober thread
NoThreads == [k \in {} |-> 0]

(***************************************************************************)
(* The state after thread::spawn of the worker, before its first round.    *)
(***************************************************************************)
Init ==
    /\ options \in { WithNonce(c, 1) : c \in Configs }
    /\ guard = "none"
    /\ receiver_alive = TRUE
    /\ pc = "loop_start"
    /\ dur_interval = 0
    /\ avg_across = 0
    /\ dur_pause = 0
    /\ num_addrs = 0
    /\ timestamp = 0
    /\ nonce = 0
    /\ idx = 0
    /\ handles = << >>
    /\ cur = 0
    /\ data = << >>
    /\ send_ok = TRUE
    /\ elapsed = 0
    /\ slept = 0
    /\ threads = NoThreads
    /\ probed = << >>
    /\ pushed = << >>
    /\ finished = << >>
    /\ last_nonce = 0

(***************************************************************************)
(* Code outside the worker.                                                *)
(***************************************************************************)
\* a writer replaces the options and bumps the nonce; it needs the write lock, which
\* it cannot get while a read guard is held; `writes` bounds the number of writes
Write(writes) ==
    /\ guard = "none"
    /\ options.nonce <= writes
    /\ \E c \in Configs :
          /\ WithNonce(c, options.nonce) # options
          /\ options' = WithNonce(c, options.nonce + 1)
    /\ UNCHANGED << guard, receiver_alive, pc, dur_interval, avg_across, dur_pause,
                    num_addrs, timestamp, nonce, idx, handles, cur, data, send_ok,
                    elapsed, slept, threads, probed, pushed, finished, last_nonce >>

Writer == Write(MaxWrites)

\* a writer that writes once
WriterOnce == Write(1)

\* the owner of the receiving end of results_out drops it
DropReceiver ==
    /\ receiver_alive
    /\ receiver_alive' = FALSE
    /\ UNCHANGED << options, guard, pc, dur_interval, avg_across, dur_pause,
                    num_addrs, timestamp, nonce, idx, handles, cur, data, send_ok,
                    elapsed, slept, threads, probed, pushed, finished, last_nonce >>

(***************************************************************************)
(* The worker: one round of the loop of run_tcpping_worker.                *)
(***************************************************************************)
\* line 34: loop_start = Instant::now(); the locals of the previous iteration and its
\* finished threads are gone
LoopStart ==
    /\ pc = "loop_start"
    /\ pc' = "read_options"
    /\ dur_interval' = 0
    /\ avg_across' = 0
    /\ dur_pause' = 0
    /\ num_addrs' = 0
    /\ timestamp' = 0
    /\ nonce' = 0
    /\ idx' = 0
    /\ cur' = 0
    /\ data' = << >>
    /\ elapsed' = 0
    /\ slept' = 0
    /\ threads' = [k \in { j \in DOMAIN threads : threads[j].pc # "done" } |-> threads[k]]
    /\ probed' = << >>
    /\ pushed' = << >>
    /\ finished' = << >>
    /\ UNCHANGED << options, guard, receiver_alive, handles, send_ok, last_nonce >>

\* line 38: the first options_read; a read guard is granted whenever no writer
\* holds the lock
AcquireOpt ==
    /\ pc = "read_options"
    /\ guard = "none"
    /\ guard' = "opt"
    /\ UNCHANGED << options, receiver_alive, pc, dur_interval, avg_across, dur_pause,
                    num_addrs, timestamp, nonce, idx, handles, cur, data, send_ok, elapsed,
                    slept, threads, probed, pushed, finished, last_nonce >>

\* faulty variant: opt is bound in the loop body and lives on after the copy
GuardAfterOptKept == "opt"

\* the guard the worker holds once the block of lines 37-45 has ended
GuardAfterOpt == "none"

\* lines 39-45: the four fields are copied out and opt is dropped at the end of the
\* block
ReadOptions ==
    /\ pc = "read_options"
    /\ guard = "opt"
    /\ guard' = GuardAfterOpt
    /\ dur_interval' = options.interval
    /\ avg_across' = options.avg_across
    /\ dur_pause' = options.pause
    /\ num_addrs' = Len(options.addrs)
    /\ pc' = "timestamp"
    /\ UNCHANGED << options, receiver_alive, timestamp, nonce, idx, handles, cur,
                    data, send_ok, elapsed, slept, threads, probed, pushed, finished,
                    last_nonce >>

\* line 48: Local::now().timestamp() as i32
Timestamp ==
    /\ pc = "timestamp"
    /\ \E t \in Timestamps : timestamp' = t
    /\ pc' = "options_read"
    /\ UNCHANGED << options, guard, receiver_alive, dur_interval, avg_across, dur_pause,
                    num_addrs, nonce, idx, handles, cur, data, send_ok, elapsed, slept,
                    threads, probed, pushed, finished, last_nonce >>

\* line 51: the second options_read; t_opt is held to the end of the block (line 102)
AcquireTOpt ==
    /\ pc = "options_read"
    /\ guard' = "t_opt"
    /\ idx' = 1
    /\ pc' = "spawn"
    /\ UNCHANGED << options, receiver_alive, dur_interval, avg_across, dur_pause,
                    num_addrs, timestamp, nonce, handles, cur, data, send_ok, elapsed,
                    slept, threads, probed, pushed, finished, last_nonce >>

\* faulty variant: the receiver is dropped instead of being pushed on handles
NewChannelRxDropped == [queue |-> << >>, tx |-> TRUE, rx |-> FALSE]

\* a channel as its receiver sees it: the values in flight, and whether the sender
\* and the receiver still exist
NewChannel == [queue |-> << >>, tx |-> TRUE, rx |-> TRUE]

\* lines 66-68: the closure moved into the thread: the address, avg_across and
\* dur_pause by value, sum = 0, denom = 0, before its first attempt; slept is the
\* time in milliseconds it has spent in thread::sleep
NewThread(a, reps, pause) ==
    [a |-> a, avg_across |-> reps, dur_pause |-> pause, i |-> 0,
     sum |-> NsZero, denom |-> 0, slept |-> 0, pc |-> "loop"]

\* lines 52-66: one iteration of the for over t_opt.addrs: clone the address, create
\* the channel, push its receiver, spawn the thread
Spawn ==
    /\ pc = "spawn"
    /\ idx <= Len(options.addrs)
    /\ LET k == Len(handles) + 1
           a == options.addrs[idx]
       IN  /\ handles' = Append(handles, NewChannel)
           /\ threads' = [j \in DOMAIN threads \cup {k} |->
                            IF j = k THEN NewThread(a, avg_across, dur_pause)
                            ELSE threads[j]]
           /\ probed' = Append(probed, [a |-> a, ver |-> options.nonce])
    /\ idx' = idx + 1
    /\ UNCHANGED << options, guard, receiver_alive, pc, dur_interval, avg_across,
                    dur_pause, num_addrs, timestamp, nonce, cur, data, send_ok, elapsed,
                    slept, pushed, finished, last_nonce >>

\* faulty variant: t_opt is dropped when the for ends, and the nonce read afterwards
GuardDroppedEarly == "none"

\* the guard held between the end of the for and the read of the nonce
GuardAtNonce == "t_opt"

\* line 100: the for over t_opt.addrs ends
SpawnDone ==
    /\ pc = "spawn"
    /\ idx > Len(options.addrs)
    /\ guard' = GuardAtNonce
    /\ pc' = "nonce"
    /\ UNCHANGED << options, receiver_alive, dur_interval, avg_across, dur_pause,
                    num_addrs, timestamp, nonce, idx, handles, cur, data, send_ok,
                    elapsed, slept, threads, probed, pushed, finished, last_nonce >>

\* faulty variant: the nonce is read inside the for over the addresses, so that a
\* round over no address keeps the initial value
NonceReadInFor == IF Len(options.addrs) > 0 THEN options.nonce ELSE nonce

\* the value of the block of lines 50-102
NonceRead == options.nonce

\* lines 101-102: the block's value is t_opt.nonce, and t_opt is dropped
ReadNonce ==
    /\ pc = "nonce"
    /\ nonce' = NonceRead
    /\ guard' = "none"
    /\ pc' = "assemble"
    /\ UNCHANGED << options, receiver_alive, dur_interval, avg_across, dur_pause,
                    num_addrs, timestamp, idx, handles, cur, data, send_ok, elapsed,
                    slept, threads, probed, pushed, finished, last_nonce >>

\* lines 104-108: the row starts with the kind id, the nonce and the timestamp
Assemble ==
    /\ pc = "assemble"
    /\ data' = << KindId, nonce, timestamp >>
    /\ cur' = 1
    /\ pc' = "recv"
    /\ UNCHANGED << options, guard, receiver_alive, dur_interval, avg_across, dur_pause,
                    num_addrs, timestamp, nonce, idx, handles, send_ok, elapsed, slept,
                    threads, probed, pushed, finished, last_nonce >>

\* faulty variant: the receive does not wait (try_recv)
RecvReadyNoWait(h) == TRUE

\* h.recv() returns once a value is in flight or the sender is gone
RecvReady(h) == h.queue # << >> \/ ~h.tx

\* lines 114-119: the value pushed for a receiver: the value received, or
\* SENTINEL_ERROR when recv fails
RecvValue(h) == IF h.queue # << >> THEN Head(h.queue) ELSE SENTINEL_ERROR

\* lines 113-120: one iteration of the for over handles.drain(..): the blocking recv,
\* the push, and the drop of the receiver
Recv ==
    /\ pc = "recv"
    /\ cur <= Len(handles)
    /\ RecvReady(handles[cur])
    /\ data' = Append(data, RecvValue(handles[cur]))
    /\ handles' = [handles EXCEPT ![cur] =
                      [queue |-> IF @.queue # << >> THEN Tail(@.queue) ELSE << >>,
                       tx |-> @.tx, rx |-> FALSE]]
    /\ cur' = cur + 1
    /\ UNCHANGED << options, guard, receiver_alive, pc, dur_interval, avg_across,
                    dur_pause, num_addrs, timestamp, nonce, idx, send_ok, elapsed, slept,
                    threads, probed, pushed, finished, last_nonce >>

\* faulty variant: the receivers are iterated without being removed
DrainedKept(hs) == hs

\* what handles.drain(..) leaves in handles
Drained(hs) == << >>

\* faulty variant: the for over the receivers is left after the first of them
DrainEndsAfterFirst(c, hs) == c > Len(hs) \/ c > 1

\* whether the for over handles.drain(..) has ended: every receiver was iterated
DrainEnds(c, hs) == c > Len(hs)

\* line 120: the for over handles.drain(..) ends
RecvDone ==
    /\ pc = "recv"
    /\ DrainEnds(cur, handles)
    /\ handles' = Drained(handles)
    /\ pc' = "send"
    /\ UNCHANGED << options, guard, receiver_alive, dur_interval, avg_across, dur_pause,
                    num_addrs, timestamp, nonce, idx, cur, data, send_ok, elapsed, slept,
                    threads, probed, pushed, finished, last_nonce >>

\* faulty variant: a failed send ends the loop
AfterSendOrStop(ok) == IF ok THEN "pace" ELSE "stopped"

\* the worker's position after results_out.send, whatever it returned
AfterSend(ok) == "pace"

\* lines 123-125: results_out.send(TargetResults(data)); a failure is printed
Send ==
    /\ pc = "send"
    /\ pushed' = data
    /\ send_ok' = receiver_alive
    /\ data' = << >>
    /\ last_nonce' = data[2]
    /\ pc' = AfterSend(receiver_alive)
    /\ UNCHANGED << options, guard, receiver_alive, dur_interval, avg_across, dur_pause,
                    num_addrs, timestamp, nonce, idx, handles, cur, elapsed, slept,
                    threads, probed, finished >>

\* faulty variant: the whole interval is slept
SleepWhole(interval, e) == interval

\* line 130: the duration handed to thread::sleep
SleepFor(interval, e) == interval - e

\* lines 128-131: elapsed is read, and the rest of the interval is slept
Pace ==
    /\ pc = "pace"
    /\ \E e \in 0 .. MaxElapsed :
          /\ elapsed' = e
          /\ slept' = IF e < dur_interval THEN SleepFor(dur_interval, e) ELSE 0
    /\ pc' = "loop_start"
    /\ UNCHANGED << options, guard, receiver_alive, dur_interval, avg_across, dur_pause,
                    num_addrs, timestamp, nonce, idx, handles, cur, data, send_ok,
                    threads, probed, pushed, finished, last_nonce >>

(***************************************************************************)
(* The prober thread of one address (lines 66-99), by the index k of its   *)
(* channel in handles.                                                     *)
(***************************************************************************)
\* faulty variant: the closure reads avg_across from the shared options in every iteration
ProberRepsShared(k) == options.avg_across

\* the bound of `for _ in 0..avg_across`: the value moved into the closure
ProberReps(k) == threads[k].avg_across

\* faulty variant: the closures of a round resolve one shared address variable
ProberAddrShared(k) == threads[1].a

\* the address the closure resolves: its clone `a`
ProberAddr(k) == threads[k].a

\* faulty variant: no sleep after the last attempt
ProberPauseNotLast(k) ==
    IF threads[k].i + 1 < threads[k].avg_across THEN threads[k].dur_pause ELSE 0

\* the duration of the sleep of line 86: the value moved into the closure
ProberPause(k) == threads[k].dur_pause

\* faulty variant: one channel is shared by the threads of a round
TxShared(k) == 1

\* the channel the closure's tx sends on: the one whose receiver was pushed with it
TxOf(k) == k

\* lines 75-85 for one attempt: start is taken, the address is resolved, the first
\* address is connected to; sum and denom change only when the connect succeeded,
\* by the time from start to the end of the connect
Attempt(k) ==
    /\ k \in DOMAIN threads
    /\ threads[k].pc = "loop"
    /\ threads[k].i < ProberReps(k)
    /\ \E r \in ResolveOutcomes(ProberAddr(k)), connected \in BOOLEAN, c \in ConnectTimes :
          threads' = [threads EXCEPT ![k] =
                        [a |-> @.a, avg_across |-> @.avg_across,
                         dur_pause |-> @.dur_pause, i |-> @.i,
                         sum |-> IF r.res = "addr" /\ connected
                                 THEN NsAdd(@.sum, NsAdd(r.time, c)) ELSE @.sum,
                         denom |-> IF r.res = "addr" /\ connected
                                   THEN @.denom + 1 ELSE @.denom,
                         slept |-> @.slept,
                         pc |-> "pause"]]
    /\ UNCHANGED << options, guard, receiver_alive, pc, dur_interval, avg_across,
                    dur_pause, num_addrs, timestamp, nonce, idx, handles, cur, data,
                    send_ok, elapsed, slept, probed, pushed, finished, last_nonce >>

\* line 86: thread::sleep(dur_pause), and the next iteration of the for
Pause(k) ==
    /\ k \in DOMAIN threads
    /\ threads[k].pc = "pause"
    /\ threads' = [threads EXCEPT ![k].i = @ + 1,
                                  ![k].slept = @ + ProberPause(k),
                                  ![k].pc = "loop"]
    /\ UNCHANGED << options, guard, receiver_alive, pc, dur_interval, avg_across,
                    dur_pause, num_addrs, timestamp, nonce, idx, handles, cur, data,
                    send_ok, elapsed, slept, probed, pushed, finished, last_nonce >>

\* faulty variant: a closure that sent nothing leaves its sender alive
TxLeakedUnsent(denom) == denom = 0

\* whether the sender is still alive once the closure has returned
TxAfterFinish(denom) == FALSE

\* lines 89-99: after the for, the average is sent when denom is not 0; the result
\* of the send is ignored; the closure returns and tx is dropped
Finish(k) ==
    /\ k \in DOMAIN threads
    /\ threads[k].pc = "loop"
    /\ threads[k].i >= ProberReps(k)
    /\ threads' = [threads EXCEPT ![k].pc = "done"]
    /\ finished' = Append(finished, k)
    /\ LET t == TxOf(k)
           v == Average(threads[k].sum, threads[k].denom)
       IN  handles' =
              [j \in DOMAIN handles |->
                 IF j = t
                 THEN [queue |-> IF threads[k].denom # 0 /\ handles[j].rx
                                 THEN Append(handles[j].queue, v)
                                 ELSE handles[j].queue,
                       tx |-> TxAfterFinish(threads[k].denom),
                       rx |-> handles[j].rx]
                 ELSE handles[j]]
    /\ UNCHANGED << options, guard, receiver_alive, pc, dur_interval, avg_across,
                    dur_pause, num_addrs, timestamp, nonce, idx, cur, data, send_ok,
                    elapsed, slept, probed, pushed, last_nonce >>

(***************************************************************************)
(* The specifications.                                                     *)
(***************************************************************************)
\* the indices the channels of a round can have
ThreadIds == UNION { DOMAIN c.addrs : c \in Configs }

Worker ==
    \/ LoopStart
    \/ AcquireOpt
    \/ ReadOptions
    \/ Timestamp
    \/ AcquireTOpt
    \/ Spawn
    \/ SpawnDone
    \/ ReadNonce
    \/ Assemble
    \/ Recv
    \/ RecvDone
    \/ Send
    \/ Pace

Prober(k) ==
    \/ Attempt(k)
    \/ Pause(k)
    \/ Finish(k)

Next ==
    \/ Writer
    \/ DropReceiver
    \/ Worker
    \/ \E k \in ThreadIds : Prober(k)

Spec == Init /\ [][Next]_vars

FairNext ==
    \/ WriterOnce
    \/ DropReceiver
    \/ Worker
    \/ \E k \in ThreadIds : Prober(k)

\* the worker thread and every prober thread keep being scheduled; the options are
\* written at most once
FairSpec ==
    /\ Init
    /\ [][FairNext]_vars
    /\ WF_vars(Worker)
    /\ \A k \in ThreadIds : WF_vars(Prober(k))

(***************************************************************************)
(* Properties.                                                             *)
(***************************************************************************)
\* the outcome of a prober whose for loop has ended: its average, or no value
Outcome(t) == IF t.denom # 0 THEN Average(t.sum, t.denom) ELSE SENTINEL_ERROR

\* the worker's positions after the probers of the round have been spawned
AfterSpawn == { "nonce", "assemble", "recv", "send", "pace" }

\* C1: while the round's address list and nonce are being taken (t_opt is held, so
\* the options are the version they come from), the interval, avg_across, pause and
\* address count the round uses, and the avg_across and pause given to its probers,
\* are those of that same version of the options.
C1_OneVersion ==
    guard = "t_opt" =>
        /\ dur_interval = options.interval
        /\ avg_across = options.avg_across
        /\ dur_pause = options.pause
        /\ num_addrs = Len(options.addrs)
        /\ \A k \in DOMAIN threads :
              threads[k].pc # "done" =>
                 /\ threads[k].avg_across = options.avg_across
                 /\ threads[k].dur_pause = options.pause

\* C2: the nonce in field 2 of a pushed row is the nonce the options had when each
\* address probed in that round was taken from them, and when the nonce is read the
\* addresses probed are the address list of the options with that nonce.
C2_TagOfAddrs ==
    /\ [](pushed # << >> =>
            /\ Len(pushed) >= 3
            /\ \A k \in 1 .. Len(probed) : probed[k].ver = pushed[2])
    /\ [][(pc = "nonce" /\ pc' = "assemble") =>
            /\ nonce' = options.nonce
            /\ [k \in 1 .. Len(probed) |-> probed[k].a] = options.addrs
            /\ \A k \in 1 .. Len(probed) : probed[k].ver = nonce']_vars

\* C2 witness: a row with two values was pushed with nonce 2 after the options had
\* moved on to nonce 3
C2_Witness ==
    /\ pushed # << >>
    /\ Len(probed) = 2
    /\ pushed[2] = 2
    /\ options.nonce = 3

\* C3: a pushed row is the kind id, the nonce, the timestamp and one value per
\* address probed in the round, so its length is 3 + the number of those addresses;
\* while receiving, the row holds one value per receiver already drained; after the
\* drain no receiver is left in handles.
C3_RowLength ==
    /\ pushed # << >> =>
          /\ Len(pushed) = 3 + Len(probed)
          /\ pushed[1] = KindId
          /\ pushed[2] = nonce
          /\ pushed[3] = timestamp
    /\ pc = "recv" => Len(data) = 3 + (cur - 1) /\ Len(handles) = Len(probed)
    /\ pc = "send" => Len(data) = 3 + Len(probed)
    /\ pc \in { "send", "pace", "loop_start", "read_options", "timestamp",
                "options_read" } => handles = << >>

\* C3 witness: in a round that follows a round whose send failed, the row over an
\* empty address list is complete with length 3 and is about to be pushed
C3_Witness ==
    /\ pc = "send"
    /\ ~send_ok
    /\ probed = << >>
    /\ data = << KindId, nonce, timestamp >>

\* C4: the value at position 3 + i of the row, while it is assembled and when it is
\* pushed, is the outcome of the prober of the i-th address probed, which has ended.
C4_AddressOrder ==
    /\ \A i \in 1 .. (Len(data) - 3) :
          /\ i \in DOMAIN threads
          /\ threads[i].pc = "done"
          /\ threads[i].a = probed[i].a
          /\ data[3 + i] = Outcome(threads[i])
    /\ \A i \in 1 .. (Len(pushed) - 3) :
          /\ i \in DOMAIN threads
          /\ threads[i].pc = "done"
          /\ threads[i].a = probed[i].a
          /\ pushed[3 + i] = Outcome(threads[i])

\* C4 witness: the prober of the second address ended before the prober of the
\* first, both sent a value, the values differ, and the row was pushed
C4_Witness ==
    /\ finished = << 2, 1 >>
    /\ Len(pushed) = 5
    /\ probed[1].a = Slow
    /\ pushed[4] # SENTINEL_ERROR
    /\ pushed[5] > 0
    /\ pushed[4] # pushed[5]

\* C5: in a pushed row the value of a target is SENTINEL_ERROR exactly when none of
\* the attempts of its prober in that round succeeded; the value of a target whose
\* address never resolves is SENTINEL_ERROR.
C5_SentinelIffNoSuccess ==
    pushed # << >> =>
        \A i \in 1 .. Len(probed) :
            /\ pushed[3 + i] = SENTINEL_ERROR <=> threads[i].denom = 0
            /\ probed[i].a = Invalid => pushed[3 + i] = SENTINEL_ERROR

\* C6: every value of a pushed row is at least 0 or is SENTINEL_ERROR, and the
\* average a prober with a successful attempt sends is at least 0 and is not
\* SENTINEL_ERROR.
C6_ValueRange ==
    /\ \A j \in 4 .. Len(pushed) : pushed[j] >= 0 \/ pushed[j] = SENTINEL_ERROR
    /\ \A k \in DOMAIN threads :
          (threads[k].pc = "done" /\ threads[k].denom # 0) =>
              /\ Outcome(threads[k]) >= 0
              /\ Outcome(threads[k]) # SENTINEL_ERROR

\* C7: a step that changes the options after the probers of the round were spawned
\* changes neither the address, the number of attempts or the pause of a prober, nor
\* the nonce, the row or the receivers of the round; a prober ends after as many
\* attempts as the avg_across the round read; the next round reads the options as
\* they then are.
C7_RoundUnaffected ==
    /\ [][(options' # options /\ pc \in AfterSpawn) =>
            /\ DOMAIN threads' = DOMAIN threads
            /\ \A k \in DOMAIN threads :
                  /\ ProberAddr(k)' = ProberAddr(k)
                  /\ ProberReps(k)' = ProberReps(k)
                  /\ ProberPause(k)' = ProberPause(k)
            /\ nonce' = nonce
            /\ data' = data
            /\ Len(handles') = Len(handles)
            /\ dur_interval' = dur_interval]_vars
    /\ [](\A k \in DOMAIN threads :
            /\ threads[k].a = probed[k].a
            /\ threads[k].pc = "done" => threads[k].i = avg_across)
    /\ [](pushed # << >> =>
            /\ Len(pushed) = 3 + Len(probed)
            /\ Len(probed) > 0 => pushed[2] = probed[1].ver)
    /\ [][(pc = "read_options" /\ pc' = "timestamp") =>
            /\ dur_interval' = options.interval
            /\ avg_across' = options.avg_across
            /\ dur_pause' = options.pause]_vars

\* C7 witness: the options were changed while probers of the round are still
\* attempting, and now hold another avg_across than the round read
C7_Witness ==
    /\ pc = "recv"
    /\ options.nonce > nonce
    /\ options.avg_across # avg_across
    /\ \E k \in DOMAIN threads : threads[k].pc = "pause" /\ threads[k].i = 0

\* C8: a send that fails because the receiver is gone leaves the worker at the
\* pacing step with the interval it read; the pacing step sleeps the rest of the
\* interval whether the send failed or not; and after a failed send the worker
\* always reaches the send of a next round.
C8_SendFailureContinues ==
    /\ [][(pc = "send" /\ ~receiver_alive /\ pc' # pc) =>
            /\ pc' = "pace"
            /\ ~send_ok'
            /\ dur_interval' = dur_interval]_vars
    /\ [][(pc = "pace" /\ pc' # pc) =>
            /\ pc' = "loop_start"
            /\ slept' = IF elapsed' < dur_interval THEN dur_interval - elapsed' ELSE 0]_vars
    /\ (pc = "pace" /\ ~send_ok) ~> (pc = "send")

\* C8 witness: the worker is at the send of a round that follows a failed send
C8_Witness ==
    /\ pc = "send"
    /\ Len(data) > 3
    /\ ~send_ok
    /\ ~receiver_alive

\* C9: every round that has read the options reaches its end with its row pushed and
\* all of its probers ended, and the next round then starts.
C9_RoundsFinish ==
    /\ (pc = "read_options") ~>
          (/\ pc = "loop_start"
           /\ pushed # << >>
           /\ \A k \in DOMAIN threads : threads[k].pc = "done")
    /\ (pc = "loop_start") ~> (pc = "read_options")

\* C9 witness: a round ended whose row holds SENTINEL_ERROR for a prober that made
\* its attempts and sent nothing
C9_Witness ==
    /\ pc = "loop_start"
    /\ \E i \in 1 .. Len(probed) :
          /\ threads[i].denom = 0
          /\ threads[i].i > 0
          /\ pushed[3 + i] = SENTINEL_ERROR

\* C10: when a round ends, it has slept exactly interval - elapsed if elapsed was
\* below the interval, so that it lasted the interval, and has not slept otherwise;
\* a round ends only from the pacing step, after its row was handed to send, and a
\* round starts only from the end of a round.
C10_Pacing ==
    /\ [](pc = "loop_start" =>
            /\ elapsed < dur_interval => slept > 0 /\ elapsed + slept = dur_interval
            /\ elapsed >= dur_interval => slept = 0)
    /\ [][(pc' = "loop_start" /\ pc # "loop_start") =>
            pc = "pace" /\ pushed # << >>]_vars
    /\ [][(pc' = "read_options" /\ pc # "read_options") => pc = "loop_start"]_vars

\* C10 witness: a round ended after sleeping a part of its interval
C10_Witness ==
    /\ pc = "loop_start"
    /\ elapsed = 1
    /\ dur_interval = 2
    /\ slept = 1

\* what one step of a closure can make of its own record t, read from t alone: an
\* attempt that fails or succeeds on t's own address, a pause, or the return
OwnSteps(t) ==
    IF t.pc = "loop" /\ t.i < t.avg_across
    THEN { [t EXCEPT !.pc = "pause"] } \cup
         { [t EXCEPT !.sum = NsAdd(t.sum, NsAdd(r.time, c)),
                     !.denom = t.denom + 1,
                     !.pc = "pause"] :
              r \in { x \in ResolveOutcomes(t.a) : x.res = "addr" }, c \in ConnectTimes }
    ELSE IF t.pc = "pause"
    THEN { [t EXCEPT !.i = t.i + 1, !.slept = t.slept + t.dur_pause, !.pc = "loop"] }
    ELSE IF t.pc = "loop"
    THEN { [t EXCEPT !.pc = "done"] }
    ELSE { }

\* C11: a step that changes the record of one prober is a step that prober can take
\* from its own record and address alone, whatever the other probers did; it changes
\* no other prober's record, no other prober's channel and not the row; and the
\* value of a target in the pushed row is the outcome of its own prober, so that a
\* target with a success keeps its average when another target failed every time.
C11_Independent ==
    /\ [][\A i \in DOMAIN threads \cap DOMAIN threads' :
            threads'[i] # threads[i] =>
               /\ threads'[i] \in OwnSteps(threads[i])
               /\ data' = data
               /\ \A j \in (DOMAIN threads \cap DOMAIN threads') \ {i} :
                     threads'[j] = threads[j]
               /\ \A j \in (DOMAIN handles \cap DOMAIN handles') \ {i} :
                     handles'[j] = handles[j]]_vars
    /\ [](pushed # << >> =>
            \A i \in 1 .. Len(probed) :
               /\ pushed[3 + i] = Outcome(threads[i])
               /\ threads[i].denom # 0 =>
                     pushed[3 + i] = Average(threads[i].sum, threads[i].denom))

\* C11 witness: a row was pushed in which the second target failed in each of its
\* two attempts and shows SENTINEL_ERROR, and the first target shows its average
C11_Witness ==
    /\ Len(pushed) = 5
    /\ threads[2].denom = 0
    /\ threads[2].i = 2
    /\ pushed[5] = SENTINEL_ERROR
    /\ threads[1].denom = 2
    /\ pushed[4] >= 0

\* the worker's positions of a round before its row is handed to send
BeforeSend ==
    { "loop_start", "read_options", "timestamp", "options_read", "spawn", "nonce",
      "assemble", "recv", "send" }

\* C12: within a round a row is handed to send exactly once: no row has been handed
\* over at any position up to the send, one has at the pacing step, the step that
\* hands it over is the send step, taken after every receiver of the round was
\* received from, with the complete row, and the pacing step comes only after it
\* and hands over nothing; the next round starts only from the pacing step.
C12_OnePushPerRound ==
    /\ [](pc \in BeforeSend \ { "loop_start" } => pushed = << >>)
    /\ [](pc = "pace" => pushed # << >>)
    /\ [][pushed' # pushed =>
            \/ /\ pc = "send"
               /\ pc' = "pace"
               /\ pushed = << >>
               /\ pushed' = data
               /\ Len(data) = 3 + Len(probed)
               /\ cur = Len(probed) + 1
               /\ \A k \in 1 .. Len(probed) : threads[k].pc = "done"
            \/ /\ pc = "loop_start"
               /\ pc' = "read_options"
               /\ pushed' = << >>]_vars
    /\ [][(pc = "send" /\ pc' # pc) => (pc' = "pace" /\ pushed' # << >>)]_vars
    /\ [][(pc = "pace" /\ pc' # pc) => (pc' = "loop_start" /\ pushed' = pushed)]_vars

\* C12 witness: the worker is at the pacing step of a round over two addresses, its
\* row of five fields handed over and accepted
C12_Witness ==
    /\ pc = "pace"
    /\ Len(pushed) = 5
    /\ send_ok
    /\ receiver_alive
    /\ last_nonce = 2

\* C13: a successful attempt adds to sum the time of the connect alone, which is
\* below the connect timeout; the time the resolution took is not in it.
C13_ConnectOnly ==
    [][\A k \in DOMAIN threads \cap DOMAIN threads' :
          (/\ threads[k].pc = "loop"
           /\ threads'[k].pc = "pause"
           /\ threads'[k].denom = threads[k].denom + 1) =>
              \E c \in ConnectTimes : threads'[k].sum = NsAdd(threads[k].sum, c)]_vars

\* a value of at least 0 microseconds as [ms, us]
UsOf(v) == [ms |-> v \div 1000, us |-> v % 1000]

\* C14: an attempt either leaves sum and denom as they are or adds 1 to denom and
\* its elapsed time to sum; denom is at most the number of attempts made; and a
\* prober that returns with denom not 0 has put exactly one value on its own
\* channel, the number trunc(trunc(sum / denom) / 1000).
C14_TruncatedMean ==
    /\ [][\A k \in DOMAIN threads \cap DOMAIN threads' :
            /\ (threads[k].pc = "loop" /\ threads'[k].pc = "pause") =>
                  \/ /\ threads'[k].denom = threads[k].denom
                     /\ threads'[k].sum = threads[k].sum
                  \/ /\ threads'[k].denom = threads[k].denom + 1
                     /\ threads'[k].sum # threads[k].sum
            /\ (threads[k].pc = "loop" /\ threads'[k].pc = "done"
                                      /\ threads[k].denom # 0) =>
                  /\ k \in DOMAIN handles'
                  /\ handles[k].queue = << >>
                  /\ Len(handles'[k].queue) = 1
                  /\ handles'[k].queue[1] >= 0
                  /\ UsOf(handles'[k].queue[1]) =
                        NsToUs(NsDiv(threads[k].sum, threads[k].denom))]_vars
    /\ [](\A k \in DOMAIN threads :
            /\ threads[k].denom <= threads[k].i + (IF threads[k].pc = "pause" THEN 1 ELSE 0)
            /\ threads[k].denom = 0 => threads[k].sum = NsZero)

\* C15: a prober alternates attempt and pause: every attempt is followed by a sleep
\* of the pause it was given, whether or not the attempt added to denom, and the
\* next attempt or the return comes only after that sleep; it returns after exactly
\* avg_across attempts and as many pauses; and its channel holds a value or has
\* lost its sender only once the prober has returned.
C15_AttemptsAndPauses ==
    /\ [][\A k \in DOMAIN threads \cap DOMAIN threads' :
            threads'[k] # threads[k] =>
               \/ /\ threads[k].pc = "loop"
                  /\ threads'[k].pc = "pause"
                  /\ threads[k].i < threads[k].avg_across
                  /\ threads'[k].i = threads[k].i
                  /\ threads'[k].slept = threads[k].slept
               \/ /\ threads[k].pc = "pause"
                  /\ threads'[k].pc = "loop"
                  /\ threads'[k].i = threads[k].i + 1
                  /\ threads'[k].slept = threads[k].slept + threads[k].dur_pause
                  /\ threads'[k].denom = threads[k].denom
               \/ /\ threads[k].pc = "loop"
                  /\ threads'[k].pc = "done"
                  /\ threads[k].i = threads[k].avg_across
                  /\ threads[k].slept = threads[k].avg_across * threads[k].dur_pause]_vars
    /\ [](\A k \in DOMAIN threads :
            /\ threads[k].i <= threads[k].avg_across
            /\ threads[k].slept = threads[k].i * threads[k].dur_pause
            /\ threads[k].pc = "pause" => threads[k].i < threads[k].avg_across
            /\ threads[k].pc = "done" => threads[k].i = threads[k].avg_across)
    /\ [](\A k \in DOMAIN handles :
            (handles[k].queue # << >> \/ ~handles[k].tx) =>
               /\ threads[k].pc = "done"
               /\ threads[k].slept = threads[k].avg_across * threads[k].dur_pause)

\* C15 witness: a prober returned after two attempts, one of them successful, and
\* two pauses of 1 ms, and a prober whose attempts all failed did the same
C15_Witness ==
    /\ DOMAIN threads = { 1, 2 }
    /\ threads[1].pc = "done"
    /\ threads[1].i = 2
    /\ threads[1].denom = 1
    /\ threads[1].slept = 2
    /\ threads[2].pc = "done"
    /\ threads[2].denom = 0
    /\ threads[2].slept = 2

\* the worker's positions at which probers of the round can still be running
WhileProbing == { "spawn", "nonce", "assemble", "recv" }

\* C16: when the row of a round has been handed to send, every prober of that
\* round has returned after all of its attempts and pauses; a prober that has not
\* returned was spawned in the current round, for the address at its position, the
\* worker is between the spawn and the end of the receives of that round and has
\* not received from that prober's channel yet; the probers there are are exactly
\* those of the addresses probed in the current round.
C16_RoundsDoNotOverlap ==
    /\ DOMAIN threads = 1 .. Len(probed)
    /\ pushed # << >> =>
          \A k \in 1 .. Len(probed) :
             /\ threads[k].pc = "done"
             /\ threads[k].i = threads[k].avg_across
             /\ threads[k].slept = threads[k].avg_across * threads[k].dur_pause
    /\ \A k \in DOMAIN threads :
          threads[k].pc # "done" =>
             /\ pc \in WhileProbing
             /\ threads[k].a = probed[k].a
             /\ k \in DOMAIN handles
             /\ handles[k].rx
             /\ pc = "recv" => cur <= k

\* C16 witness: the worker waits on the second receiver while the second prober is
\* in the pause after its first attempt; the first prober has returned and its
\* value was received
C16_Witness ==
    /\ pc = "recv"
    /\ cur = 2
    /\ Len(data) = 4
    /\ DOMAIN threads = { 1, 2 }
    /\ threads[1].pc = "done"
    /\ threads[2].pc = "pause"
    /\ threads[2].i = 0
    /\ ~RecvReady(handles[2])

C18_GuardOnlyWhileReading ==
    /\ guard \in { "none", "opt", "t_opt" }
    /\ guard = "opt" => pc = "read_options"
    /\ guard = "t_opt" <=> pc \in { "spawn", "nonce" }
    /\ pc \in { "loop_start", "timestamp", "options_read", "assemble", "recv", "send",
                "pace" } => guard = "none"
    /\ guard # "none" => ENABLED Worker
    /\ (pc \in { "recv", "send", "pace" } /\ options.nonce <= MaxWrites) => ENABLED Writer

\* C18 witness: the options were written after the first prober was spawned, while
\* the worker is blocked in the receive on that prober's channel and the prober is
\* in a pause
C18_Witness ==
    /\ pc = "recv"
    /\ cur = 1
    /\ guard = "none"
    /\ Len(handles) >= 1
    /\ ~RecvReady(handles[1])
    /\ threads[1].pc = "pause"
    /\ options.nonce = probed[1].ver + 1

\* C19: the nonce of the options never decreases, and then the nonce of a row
\* handed to send is at least the nonce of the row handed to send before it, and at
\* most the nonce the options have by then.
C19_TagsNonDecreasing ==
    /\ [][options'.nonce >= options.nonce]_vars
    /\ [][last_nonce' >= last_nonce]_vars
    /\ [][(pc = "send" /\ pc' # pc) =>
            /\ pushed'[2] >= last_nonce
            /\ last_nonce' = pushed'[2]]_vars
    /\ [](last_nonce <= options.nonce)
    /\ [](pc = "send" => data[2] >= last_nonce)

\* C19 witness: the row about to be handed to send has nonce 3 and the row handed
\* to send before it had nonce 1
C19_Witness ==
    /\ pc = "send"
    /\ last_nonce = 1
    /\ data[2] = 3

====
